---------------------------- MODULE Spec2Model ----------------------------
(***************************************************************************)
(* Model of migration/keep_to_supabase.py: the conversion of Google Keep   *)
(* JSON exports into structured notes (parse_note_json and its helpers),   *)
(* the batch loop over the input files (collect_notes) and the emission of *)
(* the SQL statements (generate_sql).                                      *)
(*                                                                         *)
(* A Python str is modelled as a sequence of one-character strings, so     *)
(* that the regular expressions of the source are operators over the       *)
(* characters of a string.                                                 *)
(***************************************************************************)
EXTENDS Integers, Sequences, FiniteSets, TLC

VARIABLES
    pc,                 \* position of the running function
    title_arg,          \* extract_chords_from_title: its argument
    title,              \* title after chord extraction
    metadata_chords,    \* annotation "Chords used : ..." or None
    data,               \* parse_note_json: the raw note (a JSON value)
    now,                \* datetime.now(timezone.utc) of the run
    lines,              \* raw_text split into lines
    references_lines,   \* stripped bare-URL lines
    content_lines,      \* the content stream
    first_paragraph,    \* leading run of non-blank content lines
    use_metadata,       \* decision of the metadata block detector
    metadata_lines,     \* consumed header lines
    grouped_content,    \* content stream after tablature grouping
    labels,             \* label names of the note
    note,               \* the dict parse_note_json returns
    files,              \* collect_notes: the files input_dir.glob yields
    file_idx,           \* collect_notes: index of the next file
    notes,              \* list of structured notes
    tag_map,            \* generate_sql: label name -> tag identifier
    note_ids,           \* generate_sql: identifier of each note
    out,                \* generate_sql: the statements written so far
    idx,                \* generate_sql: index of the next note to write
    next_uuid           \* generate_sql: number of uuid4() calls made

vars == <<pc, title_arg, title, metadata_chords, data, now, lines,
          references_lines, content_lines, first_paragraph, use_metadata,
          metadata_lines, grouped_content, labels, note, files, file_idx, notes,
          tag_map, note_ids, out, idx, next_uuid>>

titleVars == <<title_arg>>
parseVars == <<data, now, lines, references_lines, content_lines,
               first_paragraph, use_metadata, metadata_lines,
               grouped_content, labels, note>>
collectVars == <<files, file_idx>>
sqlVars == <<tag_map, note_ids, out, idx, next_uuid>>

-----------------------------------------------------------------------------
(* Characters and strings *)

LF == "\n"
CR == "\r"
TAB == "\t"
EnDash == "<U+2013>"
EmDash == "<U+2014>"

\* Python's None
None == <<"None">>

\* the characters \s matches and str.strip() removes
Whitespace == {" ", TAB, LF, CR}
\* the characters \d matches
Digits == {"0", "1", "2", "3", "4", "5", "6", "7", "8", "9"}

RECURSIVE Join(_, _)
\* sep.join(parts)
Join(parts, sep) ==
    IF parts = <<>> THEN <<>>
    ELSE IF Len(parts) = 1 THEN parts[1]
    ELSE parts[1] \o sep \o Join(Tail(parts), sep)

RECURSIVE LStripSet(_, _)
LStripSet(s, cs) ==
    IF s # <<>> /\ s[1] \in cs THEN LStripSet(Tail(s), cs) ELSE s

RECURSIVE RStripSet(_, _)
RStripSet(s, cs) ==
    IF s # <<>> /\ s[Len(s)] \in cs
    THEN RStripSet(SubSeq(s, 1, Len(s) - 1), cs) ELSE s

\* s.strip()
Strip(s) == RStripSet(LStripSet(s, Whitespace), Whitespace)

\* s.strip("\n")
StripNewlines(s) == RStripSet(LStripSet(s, {LF}), {LF})

RECURSIVE CollapseWhitespace(_)
\* re.sub(r'\s+', ' ', s)
CollapseWhitespace(s) ==
    IF s = <<>> THEN <<>>
    ELSE IF s[1] \in Whitespace
    THEN <<" ">> \o CollapseWhitespace(LStripSet(s, Whitespace))
    ELSE <<s[1]>> \o CollapseWhitespace(Tail(s))

RECURSIVE ReplaceChar(_, _, _)
\* s.replace(a, b) for a one-character a and a string b
ReplaceChar(s, a, b) ==
    IF s = <<>> THEN <<>>
    ELSE (IF s[1] = a THEN b ELSE <<s[1]>>) \o ReplaceChar(Tail(s), a, b)

RECURSIVE ReplaceCRLF(_)
\* s.replace("\r\n", "\n")
ReplaceCRLF(s) ==
    IF s = <<>> THEN <<>>
    ELSE IF Len(s) >= 2 /\ s[1] = CR /\ s[2] = LF
    THEN <<LF>> \o ReplaceCRLF(SubSeq(s, 3, Len(s)))
    ELSE <<s[1]>> \o ReplaceCRLF(Tail(s))

RECURSIVE SplitOn(_, _)
\* s.split(c): the pieces between the occurrences of c, empty ones kept
SplitOn(s, c) ==
    IF \A i \in 1..Len(s) : s[i] # c THEN <<s>>
    ELSE LET i == CHOOSE k \in 1..Len(s) :
                      s[k] = c /\ \A m \in 1..(k - 1) : s[m] # c
         IN <<SubSeq(s, 1, i - 1)>> \o SplitOn(SubSeq(s, i + 1, Len(s)), c)

-----------------------------------------------------------------------------
(* extract_chords_from_title *)

NOTES_SHARP == << <<"C">>, <<"C", "#">>, <<"D">>, <<"D", "#">>, <<"E">>,
                  <<"F">>, <<"F", "#">>, <<"G">>, <<"G", "#">>, <<"A">>,
                  <<"A", "#">>, <<"B">> >>
NOTES_FLAT == << <<"C">>, <<"D", "b">>, <<"D">>, <<"E", "b">>, <<"E">>,
                 <<"F">>, <<"G", "b">>, <<"G">>, <<"A", "b">>, <<"A">>,
                 <<"B", "b">>, <<"B">> >>
ALL_NOTES == NOTES_SHARP \o NOTES_FLAT

\* the alternatives of (?:m|maj|min|dim|aug|sus|\d+)
QualityWords == { <<"m">>, <<"m", "a", "j">>, <<"m", "i", "n">>,
                  <<"d", "i", "m">>, <<"a", "u", "g">>, <<"s", "u", "s">> }

IsQuality(s) ==
    \/ s \in QualityWords
    \/ s # <<>> /\ \A i \in 1..Len(s) : s[i] \in Digits

\* (?:/[A-G][b#]?)
IsBass(s) ==
    /\ Len(s) \in {2, 3}
    /\ s[1] = "/"
    /\ s[2] \in {"A", "B", "C", "D", "E", "F", "G"}
    /\ Len(s) = 3 => s[3] \in {"b", "#"}

\* CHORD_SUFFIX_RE.match(t): note, optional quality, optional bass, end
CHORD_SUFFIX_RE(t) ==
    \E i \in 1..Len(t) : \E j \in i..Len(t) :
        /\ \E n \in 1..Len(ALL_NOTES) : SubSeq(t, 1, i) = ALL_NOTES[n]
        /\ (j = i \/ IsQuality(SubSeq(t, i + 1, j)))
        /\ (j = Len(t) \/ IsBass(SubSeq(t, j + 1, Len(t))))

\* BRACKET_CONTENT_RE.search(s): the leftmost "(" that a ")" follows with no
\* newline between, closed by the nearest ")"; [start, end] are the 1-based
\* positions of the two parentheses of the match
BracketAt(s, i) ==
    /\ s[i] = "("
    /\ \E j \in (i + 1)..Len(s) :
           s[j] = ")" /\ \A m \in (i + 1)..(j - 1) : s[m] # LF

BRACKET_CONTENT_RE(s) ==
    IF \A i \in 1..Len(s) : ~BracketAt(s, i)
    THEN [found |-> FALSE, start |-> 0, end |-> 0]
    ELSE LET i == CHOOSE k \in 1..Len(s) :
                      BracketAt(s, k) /\ \A m \in 1..(k - 1) : ~BracketAt(s, m)
             j == CHOOSE k \in (i + 1)..Len(s) :
                      s[k] = ")" /\ \A m \in (i + 1)..(k - 1) : s[m] # ")"
         IN [found |-> TRUE, start |-> i, end |-> j]

RECURSIVE ReSplitCommaSpace(_)
\* re.split(r'[,\s]+', s): the pieces between the maximal runs of commas and
\* whitespace, empty pieces at the two ends kept
ReSplitCommaSpace(s) ==
    LET seps == Whitespace \cup {","}
    IN IF \A i \in 1..Len(s) : s[i] \notin seps THEN <<s>>
       ELSE LET i == CHOOSE k \in 1..Len(s) :
                         s[k] \in seps /\ \A m \in 1..(k - 1) : s[m] \notin seps
            IN <<SubSeq(s, 1, i - 1)>>
                   \o ReSplitCommaSpace(LStripSet(SubSeq(s, i, Len(s)), seps))

SelectNonEmptyStripped(ts) ==
    LET kept == SelectSeq(ts, LAMBDA t : Strip(t) # <<>>)
    IN [k \in 1..Len(kept) |-> Strip(kept[k])]

ChordsPrefix ==
    <<"C", "h", "o", "r", "d", "s", " ", "u", "s", "e", "d", " ", ":", " ">>

\* the tokens of the bracket content that are valid chords
ValidChords(bracket_content) ==
    SelectSeq(SelectNonEmptyStripped(ReSplitCommaSpace(bracket_content)),
              CHORD_SUFFIX_RE)

RECURSIVE ChordsOfFirstChordGroup(_)
\* the valid chords of the first bracket group that has any, looking past
\* the groups that have none
ChordsOfFirstChordGroup(t) ==
    LET match == BRACKET_CONTENT_RE(t)
    IN IF ~match.found THEN [found |-> FALSE, start |-> 0, end |-> 0,
                             chords |-> <<>>]
       ELSE LET cs == ValidChords(SubSeq(t, match.start + 1, match.end - 1))
                r == ChordsOfFirstChordGroup(SubSeq(t, match.end + 1, Len(t)))
            IN IF cs # <<>>
               THEN [found |-> TRUE, start |-> match.start,
                     end |-> match.end, chords |-> cs]
               ELSE [found |-> r.found, start |-> r.start + match.end,
                     end |-> r.end + match.end, chords |-> r.chords]

\* variant of extract_chords_from_title that searches every bracket group
extract_chords_any_group(t0) ==
    LET t == Strip(CollapseWhitespace(t0))
        g == ChordsOfFirstChordGroup(t)
    IN IF ~g.found THEN [title |-> t, metadata_chords |-> None]
       ELSE [title |->
                 Strip(CollapseWhitespace(
                     Strip(SubSeq(t, 1, g.start - 1))
                         \o Strip(SubSeq(t, g.end + 1, Len(t))))),
             metadata_chords |-> ChordsPrefix \o Join(g.chords, <<",", " ">>)]

extract_chords_from_title(t0) ==
    LET t == Strip(CollapseWhitespace(t0))
        match == BRACKET_CONTENT_RE(t)
    IN IF ~match.found THEN [title |-> t, metadata_chords |-> None]
       ELSE LET valid_chords ==
                    ValidChords(SubSeq(t, match.start + 1, match.end - 1))
            IN IF valid_chords = <<>>
               THEN [title |-> t, metadata_chords |-> None]
               ELSE [title |->
                         Strip(CollapseWhitespace(
                             Strip(SubSeq(t, 1, match.start - 1))
                                 \o Strip(SubSeq(t, match.end + 1, Len(t))))),
                     metadata_chords |->
                         ChordsPrefix \o Join(valid_chords, <<",", " ">>)]

-----------------------------------------------------------------------------
(* JSON values, as json.load returns them *)

JStr(s) == [k |-> "str", v |-> s]
JInt(n) == [k |-> "int", v |-> n]
JBool(b) == [k |-> "bool", v |-> b]
JNull == [k |-> "null", v |-> 0]
JList(xs) == [k |-> "list", v |-> xs]
\* a dict: f maps the keys present to their values
JObj(f) == [k |-> "obj", v |-> f]

\* d.get(key, default) on a dict d
Get(d, key, default) == IF key \in DOMAIN d.v THEN d.v[key] ELSE default

\* bool(x)
Truthy(x) ==
    CASE x.k = "null" -> FALSE
      [] x.k = "str" -> x.v # <<>>
      [] x.k = "int" -> x.v # 0
      [] x.k = "bool" -> x.v
      [] x.k = "list" -> x.v # <<>>
      [] x.k = "obj" -> DOMAIN x.v # {}

\* (x or "")
OrEmptyStr(x) == IF Truthy(x) THEN x ELSE JStr(<<>>)

-----------------------------------------------------------------------------
(* micros_to_iso and the int() of the timestamps *)

UsecPerSec == 1000000

\* an absolute time: whole seconds since the epoch and microseconds
IsoTime(sec, usec) == <<"utc", sec, usec>>

\* micros_to_iso(micros) for micros an int (JInt) or None (JNull)
micros_to_iso(micros) ==
    IF micros.k = "null" THEN None
    ELSE IsoTime(micros.v \div UsecPerSec, micros.v % UsecPerSec)

RECURSIVE DigitsValue(_)
DigitsValue(s) ==
    IF s = <<>> THEN 0
    ELSE 10 * DigitsValue(SubSeq(s, 1, Len(s) - 1))
             + (CHOOSE d \in 0..9 :
                    <<"0", "1", "2", "3", "4", "5", "6", "7", "8", "9">>[d + 1]
                        = s[Len(s)])

\* int(x) raises: TypeError for None, a list or a dict, ValueError for a str
\* that is not an optionally signed run of digits inside whitespace
IntRaises(x) ==
    CASE x.k \in {"null", "list", "obj"} -> TRUE
      [] x.k \in {"int", "bool"} -> FALSE
      [] x.k = "str" ->
            LET t == Strip(x.v)
                u == IF t # <<>> /\ t[1] \in {"+", "-"} THEN Tail(t) ELSE t
            IN u = <<>> \/ \E i \in 1..Len(u) : u[i] \notin Digits

\* int(x) where it does not raise
ToInt(x) ==
    CASE x.k = "int" -> x.v
      [] x.k = "bool" -> IF x.v THEN 1 ELSE 0
      [] x.k = "str" ->
            LET t == Strip(x.v)
            IN IF t[1] = "-" THEN 0 - DigitsValue(Tail(t))
               ELSE IF t[1] = "+" THEN DigitsValue(Tail(t))
               ELSE DigitsValue(t)

\* micros_to_iso(int(data.get(key, 0))) or fallback
TimestampOr(d, key, fallback) ==
    LET iso == micros_to_iso(JInt(ToInt(Get(d, key, JInt(0)))))
    IN IF iso # None THEN iso ELSE fallback

-----------------------------------------------------------------------------
(* The line classifier: the regular expressions applied to one line *)

HttpPrefix == <<"h", "t", "t", "p", ":", "/", "/">>
HttpsPrefix == <<"h", "t", "t", "p", "s", ":", "/", "/">>

StartsWith(s, p) == Len(s) >= Len(p) /\ SubSeq(s, 1, Len(p)) = p

\* URL_RE.fullmatch(s): http:// or https:// and then one or more
\* non-whitespace characters up to the end
URL_RE_fullmatch(s) ==
    \E p \in {HttpPrefix, HttpsPrefix} :
        /\ StartsWith(s, p)
        /\ Len(s) > Len(p)
        /\ \A i \in (Len(p) + 1)..Len(s) : s[i] \notin Whitespace

\* TAB_LINE_RE.match(l): ^\s*[eEGBDA]\s*\|
TAB_LINE_RE(l) ==
    LET a == LStripSet(l, Whitespace)
    IN /\ a # <<>>
       /\ a[1] \in {"e", "E", "G", "B", "D", "A"}
       /\ LET b == LStripSet(Tail(a), Whitespace)
          IN b # <<>> /\ b[1] = "|"

\* BLANK_LINE_RE.match(l): ^\s*$
BLANK_LINE_RE(l) == \A i \in 1..Len(l) : l[i] \in Whitespace

\* STARTS_WITH_NUMBER_RE.match(l): ^\s*\d
STARTS_WITH_NUMBER_RE(l) ==
    LET a == LStripSet(l, Whitespace) IN a # <<>> /\ a[1] \in Digits

-----------------------------------------------------------------------------
(* parse_note_json *)

\* (data.get("title", "") or "")
TitleValue(d) == OrEmptyStr(Get(d, "title", JStr(<<>>)))

\* (data.get("textContent", "") or "")
TextValue(d) == OrEmptyStr(Get(d, "textContent", JStr(<<>>)))

\* data.get("labels", [])
LabelsValue(d) == Get(d, "labels", JList(<<>>))

\* l.get("name") of one entry of the labels
LabelName(l) == Get(l, "name", JNull)

\* the list comprehension of the labels raises: the value cannot be
\* iterated, an entry has no .get, or a truthy name has no .strip
LabelsRaise(d) ==
    LET ls == LabelsValue(d)
    IN CASE ls.k \in {"null", "int", "bool"} -> TRUE
         [] ls.k = "str" -> ls.v # <<>>
         [] ls.k = "obj" -> DOMAIN ls.v # {}
         [] ls.k = "list" ->
               \E i \in 1..Len(ls.v) :
                   IF ls.v[i].k # "obj" THEN TRUE
                   ELSE /\ Truthy(LabelName(ls.v[i]))
                        /\ LabelName(ls.v[i]).k # "str"

\* lines 76-86 raise: data has no .get, or a value has no .strip/.replace
HeadRaises(d) ==
    IF d.k # "obj" THEN TRUE
    ELSE \/ TitleValue(d).k # "str"
         \/ TextValue(d).k # "str"
         \/ LabelsRaise(d)

\* line 76
title_raw(d) == Strip(TitleValue(d).v)

\* line 80
raw_text(d) ==
    ReplaceChar(ReplaceChar(TextValue(d).v, EnDash, <<"-">>), EmDash, <<"-">>)

LabelFilterNameTruthy(l) == Truthy(LabelName(l))

\* line 83: [l.get("name", "").strip() for l in ... if l.get("name")]
Labels(d) ==
    LET ls == LabelsValue(d)
        entries == IF ls.k = "list" THEN ls.v ELSE <<>>
        kept == SelectSeq(entries, LabelFilterNameTruthy)
    IN [i \in 1..Len(kept) |-> Strip(Get(kept[i], "name", JStr(<<>>)).v)]

\* line 86
SplitLines(text) == SplitOn(ReplaceChar(ReplaceCRLF(text), CR, <<LF>>), LF)

IsReferenceLine(line) == URL_RE_fullmatch(Strip(line))

\* lines 89-96: the stripped lines that are one URL
ReferencesLines(ls) ==
    LET urls == SelectSeq(ls, IsReferenceLine)
    IN [i \in 1..Len(urls) |-> Strip(urls[i])]

\* variant of ContentLines that appends every line to the content
ContentLinesWithUrls(ls) == ls

\* lines 89-96: the other lines, as they are
ContentLines(ls) == SelectSeq(ls, LAMBDA l : ~IsReferenceLine(l))

RECURSIVE LeadingNonBlank(_)
\* number of lines before the first blank line (all of them if none is)
LeadingNonBlank(cl) ==
    IF cl = <<>> \/ BLANK_LINE_RE(cl[1]) THEN 0
    ELSE 1 + LeadingNonBlank(Tail(cl))

\* lines 100-104
FirstParagraph(cl) == SubSeq(cl, 1, LeadingNonBlank(cl))

\* variant of UseMetadata that looks for a tablature line in the first line
\* of the paragraph only
UseMetadataFirstLineOnly(fp) ==
    IF fp # <<>>
    THEN ~(STARTS_WITH_NUMBER_RE(fp[1]) \/ TAB_LINE_RE(fp[1]))
    ELSE TRUE

\* lines 106-110
UseMetadata(fp) ==
    IF fp # <<>>
    THEN LET tab_lines_count ==
                 Cardinality({i \in 1..Len(fp) : TAB_LINE_RE(fp[i])})
         IN ~(STARTS_WITH_NUMBER_RE(fp[1]) \/ tab_lines_count > 0)
    ELSE TRUE

\* lines 113-118
MetadataLines(cl, um) ==
    IF um THEN SubSeq(cl, 1, LeadingNonBlank(cl)) ELSE <<>>

\* variant of ContentAfterMetadata that slices content_lines[i:] and so
\* keeps the separator
ContentAfterMetadataKeepsSeparator(cl, um) ==
    IF um THEN SubSeq(cl, LeadingNonBlank(cl) + 1, Len(cl)) ELSE cl

\* line 119: content_lines[i + 1:]
ContentAfterMetadata(cl, um) ==
    IF um THEN SubSeq(cl, LeadingNonBlank(cl) + 2, Len(cl)) ELSE cl

\* the backquote character (U+0060) and the fence of three of them
Backquote == "<U+0060>"
Fence == <<Backquote, Backquote, Backquote>>

RECURSIVE LeadingTabs(_)
LeadingTabs(cl) ==
    IF cl = <<>> \/ ~TAB_LINE_RE(cl[1]) THEN 0
    ELSE 1 + LeadingTabs(Tail(cl))

\* line 130
TabBlock(block) == Fence \o Join(block, <<LF>>) \o <<LF>> \o Fence

RECURSIVE GroupedContentPerLine(_)
\* variant of GroupedContent that fences every tablature line by itself
GroupedContentPerLine(cl) ==
    IF cl = <<>> THEN <<>>
    ELSE IF TAB_LINE_RE(cl[1])
    THEN <<TabBlock(<<cl[1]>>)>> \o GroupedContentPerLine(Tail(cl))
    ELSE <<cl[1]>> \o GroupedContentPerLine(Tail(cl))

RECURSIVE GroupedContent(_)
\* lines 122-133
GroupedContent(cl) ==
    IF cl = <<>> THEN <<>>
    ELSE IF TAB_LINE_RE(cl[1])
    THEN LET n == LeadingTabs(cl)
         IN <<TabBlock(SubSeq(cl, 1, n))>>
                \o GroupedContent(SubSeq(cl, n + 1, Len(cl)))
    ELSE <<cl[1]>> \o GroupedContent(Tail(cl))

\* lines 136-141
MetadataText(ml, chords) ==
    LET metadata_text == Strip(Join(ml, <<LF>>))
    IN IF chords # None /\ chords # <<>>
       THEN IF metadata_text # <<>>
            THEN metadata_text \o <<LF>> \o chords
            ELSE chords
       ELSE metadata_text

\* lines 144-145
Content(gc) ==
    StripNewlines(Join(SplitOn(Strip(Join(gc, <<LF>>)), LF), <<LF>>))

\* lines 148-149 raise
TimestampsRaise(d) ==
    \/ IntRaises(Get(d, "createdTimestampUsec", JInt(0)))
    \/ IntRaises(Get(d, "userEditedTimestampUsec", JInt(0)))

\* line 148
CreatedIso(d, t) == TimestampOr(d, "createdTimestampUsec", t)

\* line 149
UpdatedIso(d, t) == TimestampOr(d, "userEditedTimestampUsec", CreatedIso(d, t))

\* lines 151-160
NoteDict(ttl, chords, ml, gc, refs, lbls, d, t) ==
    [title |-> ttl,
     metadata |-> MetadataText(ml, chords),
     content |-> Content(gc),
     references |-> Join(refs, <<LF>>),
     labels |-> lbls,
     is_pinned |-> Truthy(Get(d, "isPinned", JBool(FALSE))),
     created_at_iso |-> CreatedIso(d, t),
     updated_at_iso |-> UpdatedIso(d, t)]

\* parse_note_json(data) raises an exception
ParseRaises(d) == IF HeadRaises(d) THEN TRUE ELSE TimestampsRaise(d)

\* parse_note_json(data) where it returns, run at time t
parse_note_json(d, t) ==
    LET r == extract_chords_from_title(title_raw(d))
        ls == SplitLines(raw_text(d))
        cl == ContentLines(ls)
        um == UseMetadata(FirstParagraph(cl))
    IN NoteDict(r.title, r.metadata_chords, MetadataLines(cl, um),
                GroupedContent(ContentAfterMetadata(cl, um)),
                ReferencesLines(ls), Labels(d), d, t)

-----------------------------------------------------------------------------
(* Specification of extract_chords_from_title over bounded titles *)

MaxTitleLen == 5
TitleChars == {"x", " ", "(", ")", ",", "C", "m"}
Titles == UNION {[1..n -> TitleChars] : n \in 0..MaxTitleLen}

\* the locals of parse_note_json before it runs
ParseLocalsUnset ==
    /\ title = <<>> /\ metadata_chords = None
    /\ lines = <<>> /\ references_lines = <<>>
    /\ content_lines = <<>> /\ first_paragraph = <<>> /\ use_metadata = TRUE
    /\ metadata_lines = <<>> /\ grouped_content = <<>> /\ labels = <<>>
    /\ note = JNull

\* the state of the functions that are not running
TitleIdle == title_arg = <<>>
ParseIdle == data = JNull /\ now = None /\ ParseLocalsUnset
CollectIdle == files = <<>> /\ file_idx = 0
SqlIdle ==
    tag_map = <<>> /\ note_ids = <<>> /\ out = <<>> /\ idx = 0 /\ next_uuid = 0

InitTitle ==
    /\ pc = "extract_chords_from_title"
    /\ title_arg \in Titles
    /\ ParseIdle /\ CollectIdle /\ SqlIdle /\ notes = <<>>

ExtractChords ==
    /\ pc = "extract_chords_from_title"
    /\ LET r == extract_chords_from_title(title_arg)
       IN /\ title' = r.title
          /\ metadata_chords' = r.metadata_chords
    /\ pc' = "returned"
    /\ UNCHANGED <<titleVars, parseVars, collectVars, sqlVars, notes>>

NextTitle == ExtractChords

SpecTitle == InitTitle /\ [][NextTitle]_vars

(* C7 *)

C7_Title == Strip(CollapseWhitespace(title_arg))

C7_HasGroup ==
    \E i, j \in 1..Len(C7_Title) :
        i < j /\ C7_Title[i] = "(" /\ C7_Title[j] = ")"

\* position of the first "(" that some ")" follows
C7_Open ==
    CHOOSE i \in 1..Len(C7_Title) :
        /\ C7_Title[i] = "("
        /\ \E j \in (i + 1)..Len(C7_Title) : C7_Title[j] = ")"
        /\ \A m \in 1..(i - 1) : C7_Title[m] # "("

\* position of the ")" closing the first group
C7_Close ==
    CHOOSE j \in (C7_Open + 1)..Len(C7_Title) :
        /\ C7_Title[j] = ")"
        /\ \A m \in (C7_Open + 1)..(j - 1) : C7_Title[m] # ")"

RECURSIVE C7_ChordRuns(_, _, _)
\* the maximal runs of non-separator characters of t[lo..hi] that are valid
\* chords, left to right
C7_ChordRuns(t, lo, hi) ==
    IF lo > hi THEN <<>>
    ELSE IF t[lo] \in Whitespace \cup {","} THEN C7_ChordRuns(t, lo + 1, hi)
    ELSE LET e == CHOOSE k \in lo..hi :
                      /\ \A m \in lo..k : t[m] \notin Whitespace \cup {","}
                      /\ k = hi \/ t[k + 1] \in Whitespace \cup {","}
             run == SubSeq(t, lo, e)
         IN (IF CHORD_SUFFIX_RE(run) THEN <<run>> ELSE <<>>)
                \o C7_ChordRuns(t, e + 1, hi)

C7_FirstGroupChords ==
    IF C7_HasGroup THEN C7_ChordRuns(C7_Title, C7_Open + 1, C7_Close - 1)
    ELSE <<>>

C7_NonSpace(s) == SelectSeq(s, LAMBDA c : c \notin Whitespace)

\* C7: extract_chords_from_title inspects only the first parenthesized group
\* of the title. If that group has at least one valid chord token, the group
\* with its parentheses is gone from the returned title and the annotation
\* is "Chords used : " followed by the group's valid tokens in their order,
\* joined by ", ". Otherwise (no valid token in the first group, or no
\* group) the whitespace-collapsed title is returned unchanged and there is
\* no annotation, whatever a later group holds.
C7_FirstGroupOnly ==
    pc = "returned" =>
        IF C7_FirstGroupChords # <<>>
        THEN /\ metadata_chords =
                    ChordsPrefix \o Join(C7_FirstGroupChords, <<",", " ">>)
             /\ C7_NonSpace(title) =
                    C7_NonSpace(SubSeq(C7_Title, 1, C7_Open - 1)
                        \o SubSeq(C7_Title, C7_Close + 1, Len(C7_Title)))
             /\ title = Strip(CollapseWhitespace(title))
        ELSE title = C7_Title /\ metadata_chords = None

\* a later group holds a valid chord, the first group holds none
C7_LaterGroupIgnored ==
    /\ pc = "returned"
    /\ C7_HasGroup
    /\ C7_FirstGroupChords = <<>>
    /\ \E i, j \in (C7_Close + 1)..Len(C7_Title) :
           /\ i < j /\ C7_Title[i] = "(" /\ C7_Title[j] = ")"
           /\ C7_ChordRuns(C7_Title, i + 1, j - 1) # <<>>
    /\ metadata_chords = None

\* the first group holds two valid chords and is removed
C7_ChordsExtracted ==
    /\ pc = "returned"
    /\ Len(C7_FirstGroupChords) = 2
    /\ metadata_chords # None
    /\ Len(title) < Len(C7_Title)

-----------------------------------------------------------------------------
(* Specification of parse_note_json over bounded raw notes *)

MaxBodyLines == 4
MaxLabels == 3

Line_Empty == <<>>
Line_Space == <<" ">>
Line_Tab == <<"e", "|", "0">>
Line_TabIndented == <<" ", "B", " ", "|">>
Line_Number == <<" ", "1", ".">>
Line_Text == <<"K", ":", "v">>
Line_Url == <<" ">> \o HttpPrefix \o <<"a", " ">>
Line_Url2 == HttpsPrefix \o <<"b">>
Line_UrlAndText == HttpsPrefix \o <<"a", " ", "b">>

BodyLineVocab ==
    {Line_Empty, Line_Space, Line_Tab, Line_TabIndented, Line_Number,
     Line_Text, Line_Url, Line_Url2, Line_UrlAndText}

BodyLineSeqs == UNION {[1..n -> BodyLineVocab] : n \in 1..MaxBodyLines}

\* notes that differ in their body only
BodyNotes == {JObj([textContent |-> JStr(Join(ls, <<LF>>))]) : ls \in BodyLineSeqs}

ScenarioTitle == <<"R", "i", "f", "f", " ", "(", "E", "m", ",", " ", "G", ")">>
ScenarioBody ==
    <<"T", "e", "m", "p", "o", ":", " ", "1", "2", "0", "\n", "\n", "h", "t", "t", "p", "s", ":", "/", "/", "e", "x", "a", "m", "p", "l", "e", ".", "c", "o", "m", "\n">>
    \o <<"e", "|", "-", "-", "0", "-", "-", "\n", "B", "|", "-", "-", "1", "-", "-", "\n">>
    \o <<"S", "o", "m", "e", " ", "l", "y", "r", "i", "c", "s">>
ScenarioLabel == <<"m", "u", "s", "i", "c">>

\* the note of the end-to-end scenario
ScenarioNote ==
    JObj([title |-> JStr(ScenarioTitle),
          textContent |-> JStr(ScenarioBody),
          labels |-> JList(<<JObj([name |-> JStr(ScenarioLabel)])>>),
          isPinned |-> JBool(FALSE),
          createdTimestampUsec |-> JInt(0)])

LabelEntryVocab ==
    {JObj(<<>>), JObj([name |-> JNull]), JObj([name |-> JStr(<<>>)]),
     JObj([name |-> JStr(<<" ">>)]), JObj([name |-> JStr(<<"a">>)]),
     JObj([name |-> JStr(<<" ", "a", " ">>)]), JObj([name |-> JStr(<<"b">>)])}

LabelEntrySeqs == UNION {[1..n -> LabelEntryVocab] : n \in 0..MaxLabels}

\* notes that differ in their labels only
LabelNotes == {JObj([labels |-> JList(ls)]) : ls \in LabelEntrySeqs}

TimestampVocab ==
    {JInt(0), JInt(1), JInt(2500001), JStr(<<"7">>), JStr(<<"x">>), JNull}

\* notes that differ in their timestamps only: each present or absent
TimestampNotes ==
    {JObj(<<>>)}
    \cup {JObj([createdTimestampUsec |-> c]) : c \in TimestampVocab}
    \cup {JObj([userEditedTimestampUsec |-> e]) : e \in TimestampVocab}
    \cup {JObj([createdTimestampUsec |-> c, userEditedTimestampUsec |-> e]) :
              c \in TimestampVocab, e \in TimestampVocab}

SampleTitles ==
    {ScenarioTitle, <<" ", "A", " ", " ", "(", "x", ")", " ">>,
     <<"A", "(", "C", "#", "m", ")", " ", "b">>}
SampleBodies ==
    {<<>>, Line_Text, Line_Number,
     Line_Text \o <<CR, LF, CR>> \o Line_Tab \o <<CR>> \o Line_Tab,
     <<"a", EnDash, "b", EmDash, "c", LF, LF, LF, "d", LF>>}
PinVocab == {JBool(TRUE), JBool(FALSE), JNull, JInt(1)}

\* notes with a title, a body and a pinned flag
TitledNotes ==
    {JObj([title |-> JStr(t), textContent |-> JStr(b), isPinned |-> p]) :
        t \in SampleTitles, b \in SampleBodies, p \in PinVocab}

\* JSON values whose structure parse_note_json does not expect
MalformedNotes ==
    {JList(<<>>), JStr(<<"x">>), JObj([title |-> JInt(5)]),
     JObj([textContent |-> JList(<<JStr(<<"x">>)>>)]),
     JObj([labels |-> JNull]),
     JObj([labels |-> JList(<<JStr(<<"a">>)>>)]),
     JObj([labels |-> JList(<<JObj([name |-> JInt(3)])>>)])}

Now1 == IsoTime(1000, 250000)
Now2 == IsoTime(2000, 0)

InitParse ==
    /\ pc = "parse_note_json"
    /\ \/ data \in BodyNotes \cup {ScenarioNote} \cup LabelNotes
                     \cup TitledNotes \cup MalformedNotes
          /\ now = Now1
       \/ data \in TimestampNotes /\ now \in {Now1, Now2}
    /\ ParseLocalsUnset
    /\ TitleIdle /\ CollectIdle /\ SqlIdle /\ notes = <<>>

\* lines 76-86
ParseHead ==
    /\ pc = "parse_note_json"
    /\ ~HeadRaises(data)
    /\ LET r == extract_chords_from_title(title_raw(data))
       IN title' = r.title /\ metadata_chords' = r.metadata_chords
    /\ labels' = Labels(data)
    /\ lines' = SplitLines(raw_text(data))
    /\ pc' = "extract_references"
    /\ UNCHANGED <<title_arg, data, now, references_lines, content_lines,
                   first_paragraph, use_metadata, metadata_lines,
                   grouped_content, note, collectVars, sqlVars, notes>>

\* lines 76-86, an exception leaves the function
ParseHeadRaise ==
    /\ pc = "parse_note_json"
    /\ HeadRaises(data)
    /\ pc' = "raised"
    /\ UNCHANGED <<title_arg, title, metadata_chords, parseVars, collectVars,
                   sqlVars, notes>>

\* lines 88-97
ExtractReferences ==
    /\ pc = "extract_references"
    /\ references_lines' = ReferencesLines(lines)
    /\ content_lines' = ContentLines(lines)
    /\ pc' = "detect_metadata"
    /\ UNCHANGED <<title_arg, title, metadata_chords, data, now, lines,
                   first_paragraph, use_metadata, metadata_lines,
                   grouped_content, labels, note, collectVars, sqlVars, notes>>

\* lines 99-110
DetectMetadata ==
    /\ pc = "detect_metadata"
    /\ first_paragraph' = FirstParagraph(content_lines)
    /\ use_metadata' = UseMetadata(FirstParagraph(content_lines))
    /\ pc' = "extract_metadata"
    /\ UNCHANGED <<title_arg, title, metadata_chords, data, now, lines,
                   references_lines, content_lines, metadata_lines,
                   grouped_content, labels, note, collectVars, sqlVars, notes>>

\* lines 112-119
ExtractMetadata ==
    /\ pc = "extract_metadata"
    /\ metadata_lines' = MetadataLines(content_lines, use_metadata)
    /\ content_lines' = ContentAfterMetadata(content_lines, use_metadata)
    /\ pc' = "group_tabs"
    /\ UNCHANGED <<title_arg, title, metadata_chords, data, now, lines,
                   references_lines, first_paragraph, use_metadata,
                   grouped_content, labels, note, collectVars, sqlVars, notes>>

\* lines 121-133
GroupTabs ==
    /\ pc = "group_tabs"
    /\ grouped_content' = GroupedContent(content_lines)
    /\ pc' = "assemble"
    /\ UNCHANGED <<title_arg, title, metadata_chords, data, now, lines,
                   references_lines, content_lines, first_paragraph,
                   use_metadata, metadata_lines, labels, note, collectVars,
                   sqlVars, notes>>

\* lines 135-160
Assemble ==
    /\ pc = "assemble"
    /\ ~TimestampsRaise(data)
    /\ note' = NoteDict(title, metadata_chords, metadata_lines,
                        grouped_content, references_lines, labels, data, now)
    /\ pc' = "returned"
    /\ UNCHANGED <<title_arg, title, metadata_chords, data, now, lines,
                   references_lines, content_lines, first_paragraph,
                   use_metadata, metadata_lines, grouped_content, labels,
                   collectVars, sqlVars, notes>>

\* lines 148-149, int() raises
AssembleRaise ==
    /\ pc = "assemble"
    /\ TimestampsRaise(data)
    /\ pc' = "raised"
    /\ UNCHANGED <<title_arg, title, metadata_chords, parseVars, collectVars,
                   sqlVars, notes>>

NextParse ==
    \/ ParseHead
    \/ ParseHeadRaise
    \/ ExtractReferences
    \/ DetectMetadata
    \/ ExtractMetadata
    \/ GroupTabs
    \/ Assemble
    \/ AssembleRaise

SpecParse == InitParse /\ [][NextParse]_vars

\* the stages compute what parse_note_json returns
StagesAgree ==
    /\ pc = "returned" /\ data # JNull => note = parse_note_json(data, now)
    /\ pc = "raised" => ParseRaises(data)

-----------------------------------------------------------------------------
(* collect_notes *)

\* a file of the input directory: it cannot be opened, it holds no JSON, or
\* it holds the JSON value json.load returns
File_Unreadable == [kind |-> "unreadable", value |-> JNull]
File_InvalidJson == [kind |-> "invalid_json", value |-> JNull]
JsonFile(v) == [kind |-> "json", value |-> v]

\* lines 198-203: f.open or json.load raises, the except clause catches it
LoadRaises(f) == f.kind # "json"

MaxFiles == 3

NoteA ==
    JObj([title |-> JStr(<<"A">>),
          textContent |-> JStr(Line_Text \o <<LF, LF>> \o Line_Tab),
          labels |-> JList(<<JObj([name |-> JStr(<<"a">>)])>>)])
NoteB ==
    JObj([title |-> JStr(<<"B">>), textContent |-> JStr(Line_Number),
          createdTimestampUsec |-> JInt(2500001)])

FileVocab ==
    {File_Unreadable, File_InvalidJson, JsonFile(NoteA), JsonFile(NoteB),
     JsonFile(JList(<<>>)),
     JsonFile(JObj([labels |-> JList(<<JStr(<<"a">>)>>)])),
     JsonFile(JObj([createdTimestampUsec |-> JStr(<<"x">>)]))}

FileSeqs == UNION {[1..n -> FileVocab] : n \in 0..MaxFiles}

InitCollect ==
    /\ pc = "collect_notes"
    /\ files \in FileSeqs
    /\ file_idx = 1
    /\ notes = <<>>
    /\ data = JNull /\ now = Now1 /\ ParseLocalsUnset
    /\ TitleIdle /\ SqlIdle

\* lines 198-203: the file is skipped
CollectSkip ==
    /\ pc = "collect_notes"
    /\ file_idx <= Len(files)
    /\ LoadRaises(files[file_idx])
    /\ file_idx' = file_idx + 1
    /\ UNCHANGED <<pc, title_arg, title, metadata_chords, parseVars, files,
                   notes, sqlVars>>

\* lines 198-205: the file is loaded, parsed and its note appended
CollectAppend ==
    /\ pc = "collect_notes"
    /\ file_idx <= Len(files)
    /\ ~LoadRaises(files[file_idx])
    /\ ~ParseRaises(files[file_idx].value)
    /\ notes' = Append(notes, parse_note_json(files[file_idx].value, now))
    /\ file_idx' = file_idx + 1
    /\ UNCHANGED <<pc, title_arg, title, metadata_chords, parseVars, files,
                   sqlVars>>

\* line 204: parse_note_json raises outside the try statement and the
\* exception leaves collect_notes
CollectRaise ==
    /\ pc = "collect_notes"
    /\ file_idx <= Len(files)
    /\ ~LoadRaises(files[file_idx])
    /\ ParseRaises(files[file_idx].value)
    /\ pc' = "raised"
    /\ UNCHANGED <<title_arg, title, metadata_chords, parseVars, collectVars,
                   notes, sqlVars>>

\* line 206
CollectReturn ==
    /\ pc = "collect_notes"
    /\ file_idx > Len(files)
    /\ pc' = "returned"
    /\ UNCHANGED <<title_arg, title, metadata_chords, parseVars, collectVars,
                   notes, sqlVars>>

NextCollect ==
    \/ CollectSkip
    \/ CollectAppend
    \/ CollectRaise
    \/ CollectReturn

SpecCollect == InitCollect /\ [][NextCollect]_vars

(* C4 *)

C4_Fails(f) ==
    IF LoadRaises(f) THEN TRUE ELSE ParseRaises(f.value)

\* C4: collect_notes skips every failing file (unreadable, invalid JSON, or
\* JSON that parse_note_json cannot handle) and goes on: it ends normally
\* and returns one structured note for every other file, in order.
C4_FailuresSkipped ==
    /\ pc # "raised"
    /\ pc = "returned" =>
           LET good == SelectSeq(files, LAMBDA f : ~C4_Fails(f))
           IN notes = [i \in 1..Len(good) |-> parse_note_json(good[i].value, now)]

-----------------------------------------------------------------------------
(* generate_sql *)

NULL == <<"N", "U", "L", "L">>
\* the user_id argument, here a short stand-in for the configured UUID
USER_ID == <<"<", "U", "S", "E", "R", ">">>

\* escape_sql_string(s) for s a str or None
escape_sql_string(s) ==
    IF s = None THEN NULL
    ELSE <<"'">>
         \o ReplaceChar(ReplaceChar(ReplaceChar(s, EnDash, <<"-">>),
                                    EmDash, <<"-">>), "'", <<"'", "'">>)
         \o <<"'">>

\* the characters of the label names, in code point order
CodePointOrder == <<" ", "-", "a", "b", "c", "d", EnDash>>
CodeRank(c) == CHOOSE i \in 1..Len(CodePointOrder) : CodePointOrder[i] = c

RECURSIVE StrLess(_, _)
\* a < b for two str
StrLess(a, b) ==
    IF b = <<>> THEN FALSE
    ELSE IF a = <<>> THEN TRUE
    ELSE IF a[1] = b[1] THEN StrLess(Tail(a), Tail(b))
    ELSE CodeRank(a[1]) < CodeRank(b[1])

RECURSIVE Sorted(_)
\* sorted(S) for a set of str
Sorted(S) ==
    IF S = {} THEN <<>>
    ELSE LET m == CHOOSE x \in S : \A y \in S \ {x} : StrLess(x, y)
         IN <<m>> \o Sorted(S \ {m})

\* lines 223-225
AllTags(ns) == UNION {{ns[i].labels[j] : j \in 1..Len(ns[i].labels)} : i \in 1..Len(ns)}

\* the identifier the n-th call of uuid.uuid4() returns: each call is taken
\* to return an identifier no other call returns
Uuid4(n) == n

\* line 227: the tags in sorted order, each with a new identifier
TagMap(ns, base) ==
    LET names == Sorted(AllTags(ns))
    IN [t \in AllTags(ns) |->
           Uuid4(base + CHOOSE i \in 1..Len(names) : names[i] = t)]

\* line 228
NoteIds(ns, base) == [i \in 1..Len(ns) |-> Uuid4(base + i)]

\* lines 233-236
TagStatements(ns, tm) ==
    LET names == Sorted(AllTags(ns))
    IN [i \in 1..Len(names) |->
           [table |-> "tags", id |-> tm[names[i]], user_id |-> USER_ID,
            name |-> escape_sql_string(names[i])]]

\* n.get(key) of a note read from metadata.json
NoteGet(n, key) == IF key \in DOMAIN n THEN n[key] ELSE JNull

RECURSIVE DigitsOf(_)
DigitsOf(n) ==
    IF n < 10 THEN <<<<"0", "1", "2", "3", "4", "5", "6", "7", "8", "9">>[n + 1]>>
    ELSE DigitsOf(n \div 10) \o DigitsOf(n % 10)

\* str(n) of an int
IntStr(n) == IF n < 0 THEN <<"-">> \o DigitsOf(0 - n) ELSE DigitsOf(n)

\* lines 240-256
NoteStatement(n, nid) ==
    [table |-> "notes", id |-> nid, user_id |-> USER_ID,
     title |-> escape_sql_string(n.title),
     content |-> escape_sql_string(n.content),
     artist |-> IF Truthy(NoteGet(n, "artist"))
                THEN escape_sql_string(NoteGet(n, "artist").v) ELSE NULL,
     album |-> IF Truthy(NoteGet(n, "album"))
               THEN escape_sql_string(NoteGet(n, "album").v) ELSE NULL,
     release_year |-> IF Truthy(NoteGet(n, "release_year"))
                      THEN IntStr(NoteGet(n, "release_year").v) ELSE NULL,
     metadata |-> IF n.metadata # <<>>
                  THEN escape_sql_string(n.metadata) ELSE NULL,
     references |-> IF n.references # <<>>
                    THEN escape_sql_string(n.references) ELSE NULL,
     isPinned |-> IF n.is_pinned THEN <<"T", "R", "U", "E">>
                  ELSE <<"F", "A", "L", "S", "E">>,
     created_at |-> n.created_at_iso,
     updated_at |-> n.updated_at_iso]

\* variant of LinkStatements that writes the new identifier of the row as
\* its tag_id
LinkStatementsOwnId(n, nid, tm, base) ==
    [j \in 1..Len(n.labels) |->
        [table |-> "note_tags", id |-> Uuid4(base + j), user_id |-> USER_ID,
         note_id |-> nid, tag_id |-> Uuid4(base + j)]]

\* lines 258-263: every label of the note is a key of tag_map
LinkStatements(n, nid, tm, base) ==
    [j \in 1..Len(n.labels) |->
        [table |-> "note_tags", id |-> Uuid4(base + j), user_id |-> USER_ID,
         note_id |-> nid, tag_id |-> tm[n.labels[j]]]]

MaxNotes == 3

SqlNote(ttl, lbls, pinned) ==
    [title |-> ttl, metadata |-> <<>>, content |-> Line_Text,
     references |-> <<>>, labels |-> lbls, is_pinned |-> pinned,
     created_at_iso |-> IsoTime(2, 500001), updated_at_iso |-> IsoTime(0, 0)]

Label_a == <<"a">>
Label_b == <<"b">>
Label_cd == <<"c", EnDash, "d">>

\* notes as metadata.json holds them, two of them with the fields that
\* fetch_and_save_metadata adds
SqlNoteVocab ==
    {SqlNote(<<"i", "t", "'", "s">>, <<>>, FALSE),
     SqlNote(<<"A">>, <<Label_a>>, TRUE),
     SqlNote(<<"B">>, <<Label_b, Label_a>>, FALSE),
     SqlNote(<<"C">>, <<Label_a, Label_a>>, FALSE),
     [title |-> <<"D">>, metadata |-> Line_Text, content |-> <<>>,
      references |-> Line_Url2, labels |-> <<Label_cd>>, is_pinned |-> FALSE,
      created_at_iso |-> IsoTime(0, 0), updated_at_iso |-> IsoTime(0, 0),
      artist |-> JStr(<<"X">>), album |-> JNull, release_year |-> JInt(1999)],
     [title |-> <<>>, metadata |-> <<>>, content |-> <<>>,
      references |-> <<>>, labels |-> <<Label_b, Label_cd>>,
      is_pinned |-> FALSE,
      created_at_iso |-> IsoTime(0, 0), updated_at_iso |-> IsoTime(0, 0)]}

SqlNoteSeqs == UNION {[1..n -> SqlNoteVocab] : n \in 0..MaxNotes}

InitSql ==
    /\ pc = "generate_sql"
    /\ notes \in SqlNoteSeqs
    /\ SqlIdle
    /\ TitleIdle /\ ParseIdle /\ CollectIdle

\* lines 223-228
SqlBuildMaps ==
    /\ pc = "generate_sql"
    /\ tag_map' = TagMap(notes, next_uuid)
    /\ note_ids' = NoteIds(notes, next_uuid + Cardinality(AllTags(notes)))
    /\ next_uuid' = next_uuid + Cardinality(AllTags(notes)) + Len(notes)
    /\ pc' = "write_tags"
    /\ UNCHANGED <<title_arg, title, metadata_chords, parseVars, collectVars,
                   notes, out, idx>>

\* lines 230-236
SqlWriteTags ==
    /\ pc = "write_tags"
    /\ out' = <<[table |-> "--"]>> \o TagStatements(notes, tag_map)
    /\ idx' = 1
    /\ pc' = "write_notes"
    /\ UNCHANGED <<title_arg, title, metadata_chords, parseVars, collectVars,
                   notes, tag_map, note_ids, next_uuid>>

\* lines 238-263, one note
SqlWriteNote ==
    /\ pc = "write_notes"
    /\ idx <= Len(notes)
    /\ out' = out \o <<NoteStatement(notes[idx], note_ids[idx])>>
                  \o LinkStatements(notes[idx], note_ids[idx], tag_map,
                                    next_uuid)
    /\ next_uuid' = next_uuid + Len(notes[idx].labels)
    /\ idx' = idx + 1
    /\ UNCHANGED <<pc, title_arg, title, metadata_chords, parseVars,
                   collectVars, notes, tag_map, note_ids>>

\* line 265
SqlReturn ==
    /\ pc = "write_notes"
    /\ idx > Len(notes)
    /\ pc' = "returned"
    /\ UNCHANGED <<title_arg, title, metadata_chords, parseVars, collectVars,
                   notes, sqlVars>>

NextSql ==
    \/ SqlBuildMaps
    \/ SqlWriteTags
    \/ SqlWriteNote
    \/ SqlReturn

SpecSql == InitSql /\ [][NextSql]_vars

(* C5 *)

C5_Rows(t) == SelectSeq(out, LAMBDA r : r.table = t)

C5_Labels == UNION {{notes[i].labels[j] : j \in 1..Len(notes[i].labels)} : i \in 1..Len(notes)}

\* the identifier of the tag-insert of a label
C5_TagId(l) ==
    LET tags == C5_Rows("tags")
    IN tags[CHOOSE k \in 1..Len(tags) : tags[k].name = escape_sql_string(l)].id

RECURSIVE C5_ExpectedLinks(_)
\* the (note identifier, tag identifier) pairs of the notes from i on
C5_ExpectedLinks(i) ==
    IF i > Len(notes) THEN <<>>
    ELSE [j \in 1..Len(notes[i].labels) |->
             <<C5_Rows("notes")[i].id, C5_TagId(notes[i].labels[j])>>]
         \o C5_ExpectedLinks(i + 1)

\* C5: generate_sql writes one tag-insert per distinct label of the notes,
\* one note-insert per note and one link-insert per entry of each note's
\* label list; every statement has an identifier of its own, and a
\* link-insert carries the identifier of its note's insert and the one
\* identifier of its label's tag-insert.
C5_OneTagPerLabel ==
    pc = "returned" =>
        LET tags == C5_Rows("tags")
            nts == C5_Rows("notes")
            links == C5_Rows("note_tags")
            ids == [k \in 1..Len(out) - 1 |-> out[k + 1].id]
        IN /\ Len(tags) = Cardinality(C5_Labels)
           /\ \A l \in C5_Labels :
                  Cardinality({k \in 1..Len(tags) :
                                  tags[k].name = escape_sql_string(l)}) = 1
           /\ Len(nts) = Len(notes)
           /\ Cardinality({ids[k] : k \in 1..Len(ids)}) = Len(ids)
           /\ [k \in 1..Len(links) |-> <<links[k].note_id, links[k].tag_id>>]
                  = C5_ExpectedLinks(1)

\* two notes share a label: one tag-insert, two link-inserts with its
\* identifier
C5_SharedLabel ==
    /\ pc = "returned"
    /\ Len(notes) = 2
    /\ Len(C5_Rows("tags")) = 1
    /\ Len(C5_Rows("note_tags")) = 2
    /\ C5_Rows("note_tags")[1].note_id # C5_Rows("note_tags")[2].note_id
    /\ C5_Rows("note_tags")[1].tag_id = C5_Rows("tags")[1].id
    /\ C5_Rows("note_tags")[2].tag_id = C5_Rows("tags")[1].id

-----------------------------------------------------------------------------
(* Properties of parse_note_json *)

\* the lines of a text
C_TextLines(text) == SplitOn(text, LF)

(* C1 *)

ScenarioContentFenced ==
    <<Backquote, Backquote, Backquote, LF>>
    \o <<"e", "|", "-", "-", "0", "-", "-", LF, "B", "|", "-", "-", "1", "-", "-", LF>>
    \o <<Backquote, Backquote, Backquote, LF, "S", "o", "m", "e", " ", "l", "y", "r", "i", "c", "s">>

\* C1: parse_note_json on the note of the end-to-end scenario returns title
\* "Riff", metadata "Tempo: 120\nChords used : Em, G", references
\* "https://example.com", labels ["music"], is_pinned false, and as content
\* a line of three backquotes, the two tablature lines, a line of three
\* backquotes and the line "Some lyrics".
C1_ScenarioResult ==
    pc = "returned" /\ data = ScenarioNote =>
        /\ note.title = <<"R", "i", "f", "f">>
        /\ note.metadata = <<"T", "e", "m", "p", "o", ":", " ", "1", "2", "0", LF, "C", "h", "o", "r", "d", "s", " ", "u", "s", "e", "d", " ", ":", " ", "E", "m", ",", " ", "G">>
        /\ note.references = <<"h", "t", "t", "p", "s", ":", "/", "/", "e", "x", "a", "m", "p", "l", "e", ".", "c", "o", "m">>
        /\ note.labels = <<ScenarioLabel>>
        /\ note.is_pinned = FALSE
        /\ note.content = ScenarioContentFenced

(* C2 *)

C2_StartsWithDigit(l) ==
    \E i \in 1..Len(l) :
        l[i] \in Digits /\ \A m \in 1..(i - 1) : l[m] \in Whitespace

C2_IsBlank(l) == \A i \in 1..Len(l) : l[i] \in Whitespace

\* length of the maximal run of non-blank lines that starts at line 0
C2_ParagraphLen(cl) ==
    CHOOSE n \in 0..Len(cl) :
        /\ \A i \in 1..n : ~C2_IsBlank(cl[i])
        /\ n = Len(cl) \/ C2_IsBlank(cl[n + 1])

C2_NotAHeader(cl) ==
    LET n == C2_ParagraphLen(cl)
    IN /\ n > 0
       /\ \/ C2_StartsWithDigit(cl[1])
          \/ \E i \in 1..n : TAB_LINE_RE(cl[i])

\* C2: use_metadata is false exactly when the first paragraph of the
\* reference-stripped content lines is non-empty and its first line starts
\* with a digit after optional whitespace or one of its lines is a
\* tablature line, and true in every other case; when it is false the
\* metadata step consumes no line and leaves the content stream as it is.
C2_UseMetadataPolicy ==
    [][/\ pc = "detect_metadata" =>
            use_metadata' = ~C2_NotAHeader(content_lines)
       /\ pc = "extract_metadata" /\ ~use_metadata =>
            content_lines' = content_lines /\ metadata_lines' = <<>>]_vars

\* a tablature line below the first line of the paragraph switches the
\* header off, and the content stream is passed on whole
C2_TabInParagraph ==
    /\ pc = "group_tabs"
    /\ ~use_metadata
    /\ Len(first_paragraph) >= 2
    /\ ~TAB_LINE_RE(first_paragraph[1])
    /\ ~C2_StartsWithDigit(first_paragraph[1])
    /\ Len(content_lines) > Len(first_paragraph)

(* C3 *)

C3_AbsentOrZero(key) ==
    key \notin DOMAIN data.v \/ ToInt(data.v[key]) = 0

C3_OwnTime(key) ==
    IsoTime(ToInt(data.v[key]) \div UsecPerSec, ToInt(data.v[key]) % UsecPerSec)

\* C3: the creation timestamp of the record is the current time of the run
\* when createdTimestampUsec is absent or zero, the update timestamp is the
\* record's creation timestamp when userEditedTimestampUsec is absent or
\* zero, and a present non-zero value is converted to its own time.
C3_TimestampDefaults ==
    pc = "returned" =>
        /\ note.created_at_iso =
               IF C3_AbsentOrZero("createdTimestampUsec") THEN now
               ELSE C3_OwnTime("createdTimestampUsec")
        /\ note.updated_at_iso =
               IF C3_AbsentOrZero("userEditedTimestampUsec")
               THEN note.created_at_iso
               ELSE C3_OwnTime("userEditedTimestampUsec")

(* C6 *)

\* a content line holds no newline, a fenced block does
C6_IsBlock(g) == \E i \in 1..Len(g) : g[i] = LF

C6_WellFenced(g) ==
    /\ Len(g) >= 2 * Len(Fence) + 1
    /\ SubSeq(g, 1, Len(Fence)) = Fence
    /\ SubSeq(g, Len(g) - Len(Fence), Len(g)) = <<LF>> \o Fence

\* the lines between the fences of a block
C6_BlockLines(g) ==
    C_TextLines(SubSeq(g, Len(Fence) + 1, Len(g) - Len(Fence) - 1))

RECURSIVE C6_Unfenced(_)
\* the grouped content with every block replaced by its lines
C6_Unfenced(gc) ==
    IF gc = <<>> THEN <<>>
    ELSE (IF C6_IsBlock(gc[1]) THEN C6_BlockLines(gc[1]) ELSE <<gc[1]>>)
             \o C6_Unfenced(Tail(gc))

\* C6: the grouping step turns every maximal run of consecutive tablature
\* lines into exactly one fenced block that holds the lines of the run in
\* their order (no two fenced blocks are adjacent, no tablature line stays
\* outside a block), and every other line passes through unchanged at its
\* place.
C6_OneBlockPerRun ==
    pc = "assemble" =>
        /\ C6_Unfenced(grouped_content) = content_lines
        /\ \A i \in 1..Len(grouped_content) :
               IF C6_IsBlock(grouped_content[i])
               THEN /\ C6_WellFenced(grouped_content[i])
                    /\ \A k \in 1..Len(C6_BlockLines(grouped_content[i])) :
                           TAB_LINE_RE(C6_BlockLines(grouped_content[i])[k])
               ELSE ~TAB_LINE_RE(grouped_content[i])
        /\ \A i \in 1..(Len(grouped_content) - 1) :
               ~(C6_IsBlock(grouped_content[i])
                    /\ C6_IsBlock(grouped_content[i + 1]))

\* two runs of tablature lines, one of them of two lines, around a line
\* that is none
C6_TwoRuns ==
    /\ pc = "assemble"
    /\ Len(grouped_content) = 3
    /\ C6_IsBlock(grouped_content[1])
    /\ Len(C6_BlockLines(grouped_content[1])) = 2
    /\ ~C6_IsBlock(grouped_content[2])
    /\ C6_IsBlock(grouped_content[3])

(* C8 *)

\* the text is one URL and nothing else
C8_IsUrl(t) ==
    /\ \E p \in {HttpPrefix, HttpsPrefix} : StartsWith(t, p) /\ Len(t) > Len(p)
    /\ \A i \in 1..Len(t) : t[i] \notin Whitespace

C8_IsUrlLine(l) == C8_IsUrl(Strip(l))

RECURSIVE C8_Split(_, _, _)
\* walking ls, every URL line is the next of refs (trimmed) and every other
\* line is the next of rest
C8_Split(ls, refs, rest) ==
    IF ls = <<>> THEN refs = <<>> /\ rest = <<>>
    ELSE IF C8_IsUrlLine(ls[1])
    THEN refs # <<>> /\ refs[1] = Strip(ls[1])
             /\ C8_Split(Tail(ls), Tail(refs), rest)
    ELSE rest # <<>> /\ rest[1] = ls[1]
             /\ C8_Split(Tail(ls), refs, Tail(rest))

C8_NoUrlLine(ls) == \A i \in 1..Len(ls) : ~C8_IsUrlLine(ls[i])

\* the lines of ls before its first blank line that are no URL lines
C8_LeadingParagraph(ls) ==
    LET blanks == {i \in 1..Len(ls) : C2_IsBlank(ls[i])}
        n == IF blanks = {} THEN Len(ls)
             ELSE (CHOOSE b \in blanks : \A c \in blanks : b <= c) - 1
    IN SelectSeq(SubSeq(ls, 1, n), LAMBDA l : ~C8_IsUrlLine(l))

\* C8: the lines whose trimmed text is exactly one URL are collected in
\* their order as the references, none of them remains in the metadata or
\* the content, the other lines keep their order, and the first paragraph
\* is taken after the extraction: a URL line inside the leading paragraph
\* does not end it and is not part of the header.
C8_ReferencesExtracted ==
    /\ pc \in {"detect_metadata", "extract_metadata"} =>
           C8_Split(lines, references_lines, content_lines)
    /\ pc \in {"extract_metadata", "group_tabs", "assemble", "returned"} =>
           /\ first_paragraph = C8_LeadingParagraph(lines)
           /\ C8_NoUrlLine(metadata_lines)
           /\ C8_NoUrlLine(content_lines)
    /\ pc = "returned" =>
           /\ note.references = Join(references_lines, <<LF>>)
           /\ C8_Split(lines, references_lines,
                       SelectSeq(lines, LAMBDA l : ~C8_IsUrlLine(l)))
           /\ C8_NoUrlLine(C_TextLines(note.content))
           /\ C8_NoUrlLine(C_TextLines(note.metadata))

\* two different URL lines are collected, one of them from inside the
\* leading paragraph, which goes on after it
C8_UrlInsideParagraph ==
    /\ pc = "returned"
    /\ Len(references_lines) = 2
    /\ references_lines[1] # references_lines[2]
    /\ Len(lines) >= 3
    /\ C8_IsUrlLine(lines[2])
    /\ Len(first_paragraph) = 2

(* C9 *)

\* C9: when use_metadata is true the header is the content lines before the
\* first blank line and the content stream handed on is the lines after
\* that blank line; with no blank line every line is header and the content
\* stream is empty.
C9_HeaderConsumed ==
    [][pc = "extract_metadata" /\ use_metadata =>
          IF \E b \in 1..Len(content_lines) : C2_IsBlank(content_lines[b])
          THEN \E b \in 1..Len(content_lines) :
                   /\ C2_IsBlank(content_lines[b])
                   /\ \A m \in 1..(b - 1) : ~C2_IsBlank(content_lines[m])
                   /\ metadata_lines' = SubSeq(content_lines, 1, b - 1)
                   /\ content_lines' =
                          SubSeq(content_lines, b + 1, Len(content_lines))
          ELSE metadata_lines' = content_lines /\ content_lines' = <<>>]_vars

\* a header of two lines was consumed with its separator and content is left
C9_HeaderAndContent ==
    /\ pc = "group_tabs"
    /\ use_metadata
    /\ Len(metadata_lines) = 2
    /\ Len(content_lines) = 1
    /\ ~C2_IsBlank(content_lines[1])

(* C10 *)

C10_NameKept(l) ==
    /\ "name" \in DOMAIN l.v
    /\ l.v["name"].k = "str"
    /\ Strip(l.v["name"].v) # <<>>

\* C10: every entry of the labels of the record is a trimmed, non-empty
\* name: entries whose name is missing, empty or only whitespace add
\* nothing, the other names appear trimmed, in order, duplicates kept.
C10_LabelsTrimmedNonEmpty ==
    pc = "returned" /\ "labels" \in DOMAIN data.v =>
        LET kept == SelectSeq(data.v["labels"].v, C10_NameKept)
        IN /\ \A i \in 1..Len(note.labels) :
                  note.labels[i] # <<>> /\ note.labels[i] = Strip(note.labels[i])
           /\ note.labels = [i \in 1..Len(kept) |-> Strip(kept[i].v["name"].v)]

=============================================================================
